---- MODULE Spec2Model ----
(***************************************************************************)
(* Model of the NVIDIA stock checker.                                      *)
(*   - the monolithic checker src/50check.py: SKU resolution               *)
(*     (get_skus_if_needed, handle_product_mismatch), the polling loop     *)
(*     (check_nvidia_stock, dispatch_stock_notifications) and main's loop; *)
(*   - the NotificationManager of src/handlers/__init__.py and of          *)
(*     src/handler/__init__.py.                                            *)
(* Time is counted in seconds.  Strings that the code searches in are      *)
(* tuples of one-character strings so that lower() and the substring test  *)
(* `a in b` are computed, not assumed.                                     *)
(***************************************************************************)
EXTENDS Integers, Sequences, FiniteSets, TLC

VARIABLES
    \* ---- configuration of the monolithic checker (fixed during a run)
    cfg,                 \* NOTIFICATION_CONFIG / TELEGRAM_CONFIG / NTFY_CONFIG switches
    product_enabled,     \* PRODUCT_CONFIG_CARDS[card]["enabled"], by position in CardNames
    \* ---- globals of 50check.py (init_globals)
    running,
    cached_skus,
    sku_to_name_map,
    last_sku_check_time,
    last_stock_status,
    successful_requests,
    failed_requests,
    last_check_success,
    telegram_connected,  \* telegram_bot.connected
    telegram_stopped,    \* telegram_bot.stop() was invoked
    console_status,      \* STATUS_UPDATES["console"], last_console_status_time and the last check of it
    \* ---- control state of main()
    pc,                  \* where main() is
    exit_code,           \* -1 while the process is alive
    skus,                \* the list check_nvidia_stock iterates
    idx,                 \* position of the for loop in skus
    remaining_attempts,  \* handle_product_mismatch's countdown
    now,                 \* wall clock
    \* ---- observations of the last operations (history, read by the properties)
    ev,                  \* the last inventory request and what it led to
    cooldown_owed,       \* an in-stock observation was made and its cooldown wait is not over
    lr,                  \* the last call of get_skus_if_needed
    \* ---- NotificationManager (handlers/__init__.py, handler/__init__.py)
    flavor,              \* which of the two packages
    registered,          \* handlers registered before initialize_handlers
    handlers,            \* self.handlers
    mgr_pc,              \* "registered" | "initialized" | "shutdown"
    calls,               \* calls[m][h]: how often method m of handler h was invoked
    init_outcome,        \* what each handler's initialize() did
    op,                  \* the last manager operation and its outcome
    \* ---- the handlers of the handlers package
    tg,                  \* TelegramNotificationHandler, its queue and its bot thread
    ch,                  \* ch[c]: the ntfy, Home Assistant and Discord handlers
    ga                   \* the tasks of the gather in NotificationManager.send_stock_alert

checker_vars == <<cfg, product_enabled, running, cached_skus, sku_to_name_map,
                  last_sku_check_time, last_stock_status, successful_requests,
                  failed_requests, last_check_success, telegram_connected,
                  telegram_stopped, console_status, pc, exit_code, skus, idx,
                  remaining_attempts, now, ev, cooldown_owed, lr>>

nm_vars == <<flavor, registered, handlers, mgr_pc, calls, init_outcome, op>>

handler_vars == <<tg, ch, ga>>

mgr_vars == <<flavor, registered, handlers, mgr_pc, calls, init_outcome, op,
              tg, ch, ga>>

vars == <<cfg, product_enabled, running, cached_skus, sku_to_name_map,
          last_sku_check_time, last_stock_status, successful_requests,
          failed_requests, last_check_success, telegram_connected,
          telegram_stopped, console_status, pc,
          exit_code, skus, idx, remaining_attempts, now, ev,
          cooldown_owed, lr, flavor, registered, handlers, mgr_pc, calls,
          init_outcome, op, tg, ch, ga>>

(***************************************************************************)
(* Bounds of the model.                                                    *)
(***************************************************************************)
\* the clock stops the run once no further wait fits below MaxTime
MaxTime == 5
\* longest productDetails list a catalog response carries
MaxCatalog == 2
\* number of handlers registered with a NotificationManager
NHandlers == 2
\* number of send operations explored on a NotificationManager
MaxOps == 2
\* number of stock alerts handed to the handlers
MaxAlerts == 2
\* number of handlers whose send_stock_alert one gather runs
MaxTasks == 3

(***************************************************************************)
(* Program constants.  check_interval, cooldown and the SKU interval are   *)
(* settable on the command line (--check-interval, --cooldown,             *)
(* --sku-check-interval); the values here are such a configuration, chosen *)
(* small, in the order the defaults have (spacing < interval < cooldown).  *)
(***************************************************************************)
SpacingWait == 1
CheckInterval == 2
Cooldown == 3
SkuCheckInterval == 4
MismatchWait == 300
MismatchAttempts == 5
SecondsPerDay == 86400

NVIDIA_BASE_URL == "base_url"

(***************************************************************************)
(* Strings: str.lower() and the substring test.                            *)
(***************************************************************************)
LowerChar(c) ==
    CASE c = "A" -> "a"
      [] c = "B" -> "b"
      [] c = "R" -> "r"
      [] c = "X" -> "x"
      [] OTHER -> c

Lower(s) == [k \in DOMAIN s |-> LowerChar(s[k])]

\* Python's `a in b` for strings
Contains(a, b) ==
    \E k \in 0..(Len(b) - Len(a)) : SubSeq(b, k + 1, k + Len(a)) = a

\* card.lower() in name.lower()
CardMatches(card, name) == Contains(Lower(card), Lower(name))

\* keys of PRODUCT_CONFIG_CARDS, in the order of the dictionary
CardNames == << <<"R", "a">>, <<"R", "b">> >>

\* display names a catalog may carry: card 1 in another case, card 1 with a
\* suffix, card 2 with a suffix, and a product that is no configured card
DisplayNames == { <<"r", "A">>, <<"r", "a", "x">>, <<"R", "b", "x">>, <<"x">> }

SKUS == {"SKU1", "SKU2"}

\* AVAILABLE_CARDS / selected_cards: the enabled cards, in configuration order
SelectedFrom(enabled, k) ==
    LET F[j \in 0..Len(CardNames)] ==
            IF j = 0 THEN <<>>
            ELSE IF enabled[j] THEN Append(F[j - 1], CardNames[j])
                 ELSE F[j - 1]
    IN F[k]

selected_cards == SelectedFrom(product_enabled, Len(CardNames))

InSeq(x, s) == \E k \in DOMAIN s : s[k] = x


(***************************************************************************)
(* The catalog: what the SKU lookup API answers.                           *)
(***************************************************************************)
NoTime == -1

CatalogEntries == [productSKU : SKUS, displayName : DisplayNames]

SeqsUpTo(S, n) == UNION { [1..k -> S] : k \in 0..n }

\* one answer of requests.get(SKU_CHECK_API_CONFIG["url"]):
\*   "fail"     requests.get, raise_for_status or response.json() raises
\*   "badshape" the JSON has "searchedProducts" without a "productDetails"
\*              (or is no dictionary): the subscript at line 447 raises
\*   "nokey"    the JSON has no "searchedProducts", or its "productDetails"
\*              is no list: the condition at line 447 is false
\*   "ok"       a productDetails list
CatalogFetches ==
    { [kind |-> k, entries |-> <<>>] : k \in {"fail", "badshape", "nokey"} }
    \cup { [kind |-> "ok", entries |-> e] : e \in SeqsUpTo(CatalogEntries, MaxCatalog) }

NoFetch == [kind |-> "none", entries |-> <<>>]

\* d[k] = v on a dict kept as a sequence of <<key, value>> in insertion order
DictPut(d, k, v) ==
    IF \E j \in DOMAIN d : d[j][1] = k
    THEN [j \in DOMAIN d |-> IF d[j][1] = k THEN <<k, v>> ELSE d[j]]
    ELSE Append(d, <<k, v>>)

\* all_products after the loop over productDetails
CollectProducts(entries) ==
    LET F[j \in 0..Len(entries)] ==
            IF j = 0 THEN <<>>
            ELSE DictPut(F[j - 1], entries[j].productSKU, entries[j].displayName)
    IN F[Len(entries)]

DictKeys(d) == { d[j][1] : j \in DOMAIN d }

DictGet(d, k) == (CHOOSE j \in DOMAIN d : d[j][1] = k)

\* the sku -> name mapping stored next to all_products
ToMap(d) == [s \in DictKeys(d) |-> d[DictGet(d, s)][2]]

EmptyMap == [s \in {} |-> <<>>]

\* handle_product_mismatch's search, mutated: a product is also missing
\* when a SKU served for it is no longer in the catalog
MissingProducts_bySku(api_products, configured_products) ==
    SelectSeq(configured_products,
              LAMBDA product :
                  \/ ~ \E j \in DOMAIN api_products :
                          CardMatches(product, api_products[j][2])
                  \/ \E k \in DOMAIN cached_skus :
                        /\ cached_skus[k] \in DOMAIN sku_to_name_map
                        /\ CardMatches(product, sku_to_name_map[cached_skus[k]])
                        /\ cached_skus[k] \notin DictKeys(api_products))

\* handle_product_mismatch: the configured products no catalog name contains
MissingProducts(api_products, configured_products) ==
    SelectSeq(configured_products,
              LAMBDA product :
                  ~ \E j \in DOMAIN api_products :
                        CardMatches(product, api_products[j][2]))

\* handle_product_mismatch's result, mutated: fatal only when no configured
\* product is left
ProductsAcceptable_onlyTotal(missing_products, configured_products) ==
    Len(missing_products) < Len(configured_products)

\* handle_product_mismatch's result, mutated: a mismatch is never fatal
ProductsAcceptable_never(missing_products, configured_products) == TRUE

\* handle_product_mismatch's result: True only when nothing is missing;
\* any missing product ends in `return False` after the warning rounds
ProductsAcceptable(missing_products, configured_products) ==
    missing_products = <<>>

\* the generator of line 469, mutated: the name has to be the card's name
MatchingCard_exactName(name, enabled) ==
    LET m == { j \in DOMAIN CardNames : CardNames[j] = name /\ enabled[j] }
    IN IF m = {} THEN 0 ELSE CHOOSE j \in m : \A k \in m : j <= k

\* next(card for card in PRODUCT_CONFIG_CARDS if card.lower() in name.lower()
\*      and enabled), as a position in CardNames; 0 for None
MatchingCard(name, enabled) ==
    LET m == { j \in DOMAIN CardNames : CardMatches(CardNames[j], name) /\ enabled[j] }
    IN IF m = {} THEN 0 ELSE CHOOSE j \in m : \A k \in m : j <= k

\* enabled_skus, mutated: a SKU that is served stays, whatever its name
EnabledSkus_keepServed(api_products, enabled, selected) ==
    LET F[j \in 0..Len(api_products)] ==
            IF j = 0 THEN <<>>
            ELSE LET c == MatchingCard(api_products[j][2], enabled)
                 IN IF \/ c # 0 /\ InSeq(CardNames[c], selected)
                       \/ InSeq(api_products[j][1], cached_skus)
                    THEN Append(F[j - 1], api_products[j][1])
                    ELSE F[j - 1]
    IN F[Len(api_products)]

\* enabled_skus: the catalog's SKUs whose name matches a selected card
EnabledSkus(api_products, enabled, selected) ==
    LET F[j \in 0..Len(api_products)] ==
            IF j = 0 THEN <<>>
            ELSE LET c == MatchingCard(api_products[j][2], enabled)
                 IN IF c # 0 /\ InSeq(CardNames[c], selected)
                    THEN Append(F[j - 1], api_products[j][1])
                    ELSE F[j - 1]
    IN F[Len(api_products)]

\* timedelta.seconds: the seconds field of a non-negative timedelta
TimedeltaSeconds(d) == d % SecondsPerDay

\* the condition of lines 420-424, mutated: the cache never counts as fresh
needs_update_always(force_check, last, current_time) == TRUE

needs_update(force_check, last, current_time) ==
    \/ force_check
    \/ last = NoTime
    \/ TimedeltaSeconds(current_time - last) >= SkuCheckInterval

\* the except clause of get_skus_if_needed, mutated: always re-raises
RefreshFailureRaises_always(cached) == TRUE

\* the except clause of get_skus_if_needed: re-raise only without a cache
RefreshFailureRaises(cached) == cached = <<>>

\* what a call of get_skus_if_needed that ended as `kind` reports:
\*   "failed"   "Failed to update SKU cache" (line 483)
\*   "listed"   "Current SKU's listed on API" (line 457)
\*   "missing"  "Product Mismatch Detected" with the missing products
\*              (lines 95-110)
\*   "updated"  "SKU cache updated successfully" / "Initial SKU check
\*              complete" (lines 479, 481)
\* It compares the catalog with nothing it fetched before, so there is no
\* report of a changed SKU or of a changed name.
RefreshEvents(kind) ==
    CASE kind = "fail" -> {"failed"}
      [] kind = "mismatch" -> {"listed", "missing"}
      [] kind = "ok" -> {"listed", "updated"}
      [] OTHER -> {}

\* get_skus_if_needed, as the values it leaves behind:
\*   kind     "skipped" | "fail" | "mismatch" | "ok"
\*   cached, map, last   cached_skus, sku_to_name_map, last_sku_check_time
\*   raised   the call ended in an exception
\*   missing  the products handle_product_mismatch found missing
\*   fetch    the answer of the catalog API (NoFetch: none was requested)
\*   at       current_time
GetSkusIfNeeded(force_check, fetch, current_time) ==
    LET same == [kind |-> "skipped", cached |-> cached_skus, map |-> sku_to_name_map,
                 last |-> last_sku_check_time, raised |-> FALSE, missing |-> <<>>,
                 fetch |-> fetch, at |-> current_time]
    IN
    IF ~ needs_update(force_check, last_sku_check_time, current_time)
    THEN [same EXCEPT !.fetch = NoFetch]
    ELSE IF fetch.kind = "fail"
    THEN [same EXCEPT !.kind = "fail", !.raised = RefreshFailureRaises(cached_skus)]
    ELSE IF fetch.kind = "badshape"
    THEN [same EXCEPT !.kind = "fail", !.map = EmptyMap,
                      !.raised = RefreshFailureRaises(cached_skus)]
    ELSE LET all_products == CollectProducts(fetch.entries)
             missing == MissingProducts(all_products, selected_cards)
         IN IF ~ ProductsAcceptable(missing, selected_cards)
            THEN [same EXCEPT !.kind = "mismatch", !.map = ToMap(all_products),
                              !.missing = missing]
            ELSE [same EXCEPT !.kind = "ok",
                              !.cached = EnabledSkus(all_products, product_enabled,
                                                     selected_cards),
                              !.map = ToMap(all_products),
                              !.last = current_time,
                              !.missing = missing]

\* what the properties remember of a call of get_skus_if_needed
\*   before, map_before, last_before   the three globals when it was called
\*   elapsed   current_time - last_sku_check_time (0 when there was no time)
RefreshRecord(force_check, r) ==
    [kind |-> r.kind, forced |-> force_check, had_cache |-> cached_skus # <<>>,
     before |-> cached_skus, returned |-> r.cached, raised |-> r.raised,
     n_missing |-> Len(r.missing), n_selected |-> Len(selected_cards),
     requests_at |-> successful_requests + failed_requests,
     missing |-> r.missing, fetch |-> r.fetch, events |-> RefreshEvents(r.kind),
     map_before |-> sku_to_name_map, last_before |-> last_sku_check_time,
     elapsed |-> IF last_sku_check_time = NoTime THEN 0
                 ELSE r.at - last_sku_check_time,
     at |-> r.at]

NoRefresh ==
    [kind |-> "none", forced |-> FALSE, had_cache |-> FALSE, before |-> <<>>,
     returned |-> <<>>, raised |-> FALSE, n_missing |-> 0, n_selected |-> 0,
     requests_at |-> 0,
     missing |-> <<>>, fetch |-> NoFetch, events |-> {},
     map_before |-> EmptyMap, last_before |-> NoTime, elapsed |-> 0,
     at |-> NoTime]


(***************************************************************************)
(* The inventory API and the stock check of one SKU.                       *)
(***************************************************************************)
\* one answer of requests.get(API_URL, skus=sku):
\*   "fail"  a RequestException (connection error, HTTP status, body no JSON)
\*   "empty" listMap is an empty list
\*   "item"  listMap[0], with its fe_sku, is_active and product_url
\*           (product_url "" stands for an absent or empty value)
Responses ==
    { [kind |-> k, fe_sku |-> "", is_active |-> "", product_url |-> ""] :
          k \in {"fail", "empty"} }
    \cup [kind : {"item"}, fe_sku : SKUS, is_active : {"true", "false"},
          product_url : {"", "product_url"}]

\* item.get("is_active", "false") == "true"
IsActive(item) == item.is_active = "true"

\* item.get("product_url") or NVIDIA_BASE_URL
ProductUrl(item) ==
    IF item.product_url = "" THEN NVIDIA_BASE_URL ELSE item.product_url

\* the condition of line 541, mutated: an SKU not seen before counts as out
\* of stock
StatusChanged_unknownIsOut(status, api_sku, is_active, product_url) ==
    \/ (IF api_sku \in DOMAIN status THEN status[api_sku] ELSE FALSE) # is_active
    \/ product_url # NVIDIA_BASE_URL

\* "Check if stock status has changed" (line 541)
StatusChanged(status, api_sku, is_active, product_url) ==
    \/ api_sku \notin DOMAIN status
    \/ status[api_sku] # is_active
    \/ product_url # NVIDIA_BASE_URL

\* last_stock_status[api_sku] = is_active
SetStatus(status, api_sku, is_active) ==
    [s \in DOMAIN status \cup {api_sku} |->
        IF s = api_sku THEN is_active ELSE status[s]]

\* the channel actions whose failure is an outcome of the environment
FallibleChannels == {"sound", "telegram", "ntfy"}

\* a call with `given` arguments of a function with `params` required
\* parameters raises TypeError unless they agree
CallRaisesTypeError(given, params) == given # params

\* dispatch_stock_notifications(sku, price, product_url, in_stock):
\*   alerts     1 unless the function returned at `if not running`
\*   attempted  the channel functions that ran
\*   failed     the channel actions that failed
\*   escaped    an exception left the function
\*   connected  telegram_bot.connected afterwards
\* open_browser is defined with one parameter (line 401) and called with
\* none (line 353).  The failures of the sound, of the Telegram send and of
\* the ntfy post are caught where they occur (lines 332-341, 230-232,
\* 398-399); a failed Telegram send clears telegram_bot.connected.
DispatchStockNotifications(run, conf, connected, in_stock, fails) ==
    IF ~ run
    THEN [alerts |-> 0, attempted |-> {}, failed |-> {}, escaped |-> FALSE,
          connected |-> connected]
    ELSE IF in_stock /\ conf.open_browser /\ CallRaisesTypeError(0, 1)
    THEN [alerts |-> 1, attempted |-> {}, failed |-> {"browser"}, escaped |-> TRUE,
          connected |-> connected]
    ELSE LET att == (IF in_stock /\ conf.open_browser THEN {"browser"} ELSE {})
                    \cup (IF in_stock /\ conf.play_sound THEN {"sound"} ELSE {})
                    \cup (IF conf.telegram /\ connected THEN {"telegram"} ELSE {})
                    \cup (IF conf.ntfy THEN {"ntfy"} ELSE {})
         IN [alerts |-> 1, attempted |-> att, failed |-> att \cap fails,
             escaped |-> FALSE,
             connected |-> connected /\ ~ ("telegram" \in att \cap fails)]

\* SoundNotificationHandler.send_stock_alert (handlers/sound.py, lines
\* 51-69): whether the handler reaches the code that plays the sound
SoundHandlerPlays(enabled, in_stock) == ~ (~ enabled \/ ~ in_stock)

\* the channels the configuration asks for on an alert
EnabledChannels(conf, connected, in_stock) ==
    (IF in_stock /\ conf.open_browser THEN {"browser"} ELSE {})
    \cup (IF in_stock /\ conf.play_sound THEN {"sound"} ELSE {})
    \cup (IF conf.telegram /\ connected THEN {"telegram"} ELSE {})
    \cup (IF conf.ntfy THEN {"ntfy"} ELSE {})

NoDispatch(connected) ==
    [alerts |-> 0, attempted |-> {}, failed |-> {}, escaped |-> FALSE,
     connected |-> connected]

NoEvent ==
    [sku |-> "", resp |-> [kind |-> "none", fe_sku |-> "", is_active |-> "",
                           product_url |-> ""],
     first |-> FALSE, entered |-> FALSE, alerts |-> 0, in_stock |-> FALSE,
     enabled |-> {}, attempted |-> {}, failed |-> {}, escaped |-> FALSE,
     repeat |-> FALSE, after_first_out |-> FALSE, prev_alerts |-> 0,
     prev_broken |-> FALSE, owed |-> FALSE, next |-> "none"]

\* `if data["listMap"]`, mutated: the first record is read without the test
HasItem_unchecked(resp) == resp.kind # "fail"

\* `if data["listMap"]` (line 530) after a request that succeeded
HasItem(resp) == resp.kind = "item"

\* where the loop body goes, mutated: a failed request leaves the loop as
\* any other exception does
NextAfter_failLeaves(request_failed, escaped, cooldown) ==
    IF request_failed \/ escaped THEN "raise"
    ELSE IF cooldown THEN "cooldown"
    ELSE "spacing"

\* where the loop body goes after the request:
\*   "next"      the except clause of line 562 ran: on to the next sku
\*   "raise"     another exception left check_nvidia_stock
\*   "cooldown"  time.sleep(params['cooldown']), line 552
\*   "spacing"   time.sleep(1), line 560
NextAfter(request_failed, escaped, cooldown) ==
    IF request_failed THEN "next"
    ELSE IF escaped THEN "raise"
    ELSE IF cooldown THEN "cooldown"
    ELSE "spacing"

\* the body of check_nvidia_stock's for loop for one sku and one answer:
\*   e          what the properties remember of it
\*   status     last_stock_status afterwards
\*   connected  telegram_bot.connected afterwards
CheckSku(sku, resp, fails) ==
    LET api_sku == resp.fe_sku
        is_active == IsActive(resp)
        url == ProductUrl(resp)
        item == HasItem(resp)
        changed == item /\ StatusChanged(last_stock_status, api_sku, is_active, url)
        d == IF changed
             THEN DispatchStockNotifications(running, cfg, telegram_connected,
                                             is_active, fails)
             ELSE NoDispatch(telegram_connected)
        first == item /\ api_sku \notin DOMAIN last_stock_status
    IN [status |-> IF changed THEN SetStatus(last_stock_status, api_sku, is_active)
                   ELSE last_stock_status,
        connected |-> d.connected,
        e |-> [sku |-> sku, resp |-> resp,
               first |-> first,
               entered |-> item /\ is_active
                           /\ (first \/ ~ last_stock_status[api_sku]),
               alerts |-> d.alerts, in_stock |-> is_active,
               enabled |-> IF changed
                           THEN EnabledChannels(cfg, telegram_connected, is_active)
                           ELSE {},
               attempted |-> d.attempted, failed |-> d.failed,
               escaped |-> d.escaped,
               \* the request before this one was for the same sku, with the
               \* same answer
               repeat |-> ev.sku = sku /\ ev.resp = resp,
               \* the request before this one was the first observation of
               \* this sku, out of stock, and this answer is for the same fe_sku
               after_first_out |-> /\ item /\ ev.sku = sku /\ ev.first
                                   /\ ev.resp.is_active = "false"
                                   /\ ev.resp.fe_sku = api_sku,
               prev_alerts |-> ev.alerts,
               \* the dispatch of the request before this one failed part-way
               prev_broken |-> ev.alerts = 1 /\ (ev.escaped \/ ev.failed # {}),
               owed |-> cooldown_owed,
               next |-> NextAfter(resp.kind = "fail", d.escaped,
                                  changed /\ is_active)]]

(***************************************************************************)
(* The monolithic checker: main() of 50check.py.                           *)
(*   pc = "start"     before the initial SKU check                         *)
(*        "resolve"   at the top of `while running`                        *)
(*        "poll"      in check_nvidia_stock, before the request of         *)
(*                    skus[idx]                                            *)
(*        "cooldown"  in time.sleep(params['cooldown'])                    *)
(*        "spacing"   in time.sleep(1)                                     *)
(*        "sleep"     in time.sleep(params['check_interval'])              *)
(*        "mismatch"  in handle_product_mismatch's warning loop            *)
(*        "interrupted"  in dispatch_stock_notifications, after a signal   *)
(*                    handler's exception was caught there                 *)
(*        "done"      the process has ended, with exit_code                *)
(***************************************************************************)
EmptyStatus == [s \in {} |-> FALSE]

Configs == [open_browser : BOOLEAN, play_sound : BOOLEAN,
            telegram : BOOLEAN, ntfy : BOOLEAN]

ProductConfigs == [DOMAIN CardNames -> BOOLEAN]

\* signal_handler, lines 240-241, and the finally clause of main(), lines
\* 730-731: telegram_bot.stop() is handed to the loop manager when there is
\* a bot
TelegramStop == telegram_stopped' = cfg.telegram

\* STATUS_UPDATES["console"]["interval"]
ConsoleStatusInterval == 3

\* no check of the console status timer was made yet
NoStatusCheck(enabled, last) ==
    [enabled |-> enabled, last |-> last,
     checked_at |-> NoTime, elapsed |-> 0, sent |-> FALSE]

\* send_console_status, lines 299-306: the status is printed and
\* last_console_status_time is reset, unless the process is stopping
SendConsoleStatus(is_running, st, current_time) ==
    IF is_running
    THEN [st EXCEPT !.last = current_time, !.sent = TRUE]
    ELSE st

\* check_nvidia_stock, lines 497-502: the console status is sent when it is
\* enabled and the seconds field of the time since the last one has reached
\* the interval; checked_at and elapsed record the check
CheckConsoleStatus(is_running, st, current_time) ==
    LET seen == [st EXCEPT !.checked_at = current_time,
                           !.elapsed = current_time - st.last,
                           !.sent = FALSE]
    IN IF st.enabled
          /\ TimedeltaSeconds(current_time - st.last) >= ConsoleStatusInterval
       THEN SendConsoleStatus(is_running, seen, current_time)
       ELSE seen

\* the state main() starts in, for a set of channel configurations and a
\* set of product configurations
CheckerInit(confs, products) ==
    /\ cfg \in confs
    /\ product_enabled \in products
    /\ running = TRUE
    /\ cached_skus = <<>>
    /\ sku_to_name_map = EmptyMap
    /\ last_sku_check_time = NoTime
    /\ last_stock_status = EmptyStatus
    /\ successful_requests = 0
    /\ failed_requests = 0
    /\ last_check_success = TRUE
    \* main() switches Telegram off unless the bot connected (lines 652-678)
    /\ telegram_connected = cfg.telegram
    /\ telegram_stopped = FALSE
    \* these runs have STATUS_UPDATES["console"]["enabled"] switched off
    /\ console_status = NoStatusCheck(FALSE, 0)
    /\ pc = "start"
    /\ exit_code = -1
    /\ skus = <<>>
    /\ idx = 1
    /\ remaining_attempts = 0
    /\ now = 0
    /\ ev = NoEvent
    /\ cooldown_owed = FALSE
    /\ lr = NoRefresh

\* the end of the process, mutated: running is cleared and main() goes on
Exit_goesOn(code) ==
    /\ pc' = pc
    /\ exit_code' = code
    /\ running' = FALSE

\* the process ends: the finally clause of main() clears running
Exit(code) ==
    /\ pc' = "done"
    /\ exit_code' = code
    /\ running' = FALSE

\* the except clause of main's loop, mutated: the exception ends the loop
CaughtInLoop_ends == "done"

\* the except clause of main's loop (lines 719-723): the exception is
\* reported and main sleeps check_interval before the next cycle
CaughtInLoop == "sleep"

\* the globals get_skus_if_needed leaves behind, mutated: a list once
\* cached is not replaced
ApplyRefresh_keepCache(force_check, r) ==
    /\ cached_skus' = IF cached_skus # <<>> THEN cached_skus ELSE r.cached
    /\ sku_to_name_map' = r.map
    /\ last_sku_check_time' = r.last
    /\ lr' = RefreshRecord(force_check, r)

\* the globals get_skus_if_needed leaves behind
ApplyRefresh(force_check, r) ==
    /\ cached_skus' = r.cached
    /\ sku_to_name_map' = r.map
    /\ last_sku_check_time' = r.last
    /\ lr' = RefreshRecord(force_check, r)

\* main(), lines 628-632: nothing to monitor
NoCards ==
    /\ pc = "start"
    /\ selected_cards = <<>>
    /\ Exit(1)
    /\ UNCHANGED <<cfg, product_enabled, console_status, telegram_stopped,
                   cached_skus, sku_to_name_map,
                   last_sku_check_time, last_stock_status, successful_requests,
                   failed_requests, last_check_success, telegram_connected,
                   skus, idx, remaining_attempts, now, ev, cooldown_owed, lr>>
    /\ UNCHANGED mgr_vars

\* main(), lines 706-711: the initial, forced SKU check; the catalog API
\* answers with one of `fetches`
InitialSkuCheck(fetches) ==
    /\ pc = "start"
    /\ selected_cards # <<>>
    /\ \E fetch \in fetches :
           LET r == GetSkusIfNeeded(TRUE, fetch, now)
           IN /\ ApplyRefresh(TRUE, r)
              /\ IF r.raised
                 THEN \* "Initial SKU check failed": main returns
                      /\ Exit(0)
                      /\ TelegramStop
                      /\ UNCHANGED remaining_attempts
                 ELSE IF r.kind = "mismatch"
                 THEN /\ pc' = "mismatch"
                      /\ remaining_attempts' = MismatchAttempts
                      /\ UNCHANGED <<exit_code, running, telegram_stopped>>
                 ELSE /\ pc' = "resolve"
                      /\ UNCHANGED <<exit_code, running, remaining_attempts,
                                     telegram_stopped>>
    /\ UNCHANGED <<cfg, product_enabled, console_status,
                   last_stock_status, successful_requests,
                   failed_requests, last_check_success, telegram_connected,
                   skus, idx, now, ev, cooldown_owed>>
    /\ UNCHANGED mgr_vars

\* main(), lines 713-716: get_skus_if_needed, then check_nvidia_stock up to
\* its first request; the catalog API answers with one of `fetches`
CycleStart(fetches) ==
    /\ pc = "resolve"
    /\ running
    /\ \E fetch \in (IF needs_update(FALSE, last_sku_check_time, now)
                     THEN fetches ELSE {NoFetch}) :
           LET r == GetSkusIfNeeded(FALSE, fetch, now)
           IN /\ ApplyRefresh(FALSE, r)
              /\ IF r.raised
                 THEN \* caught at line 719
                      /\ pc' = CaughtInLoop
                      /\ UNCHANGED <<skus, idx, remaining_attempts,
                                     console_status>>
                 ELSE IF r.kind = "mismatch"
                 THEN /\ pc' = "mismatch"
                      /\ remaining_attempts' = MismatchAttempts
                      /\ UNCHANGED <<skus, idx, console_status>>
                 ELSE /\ skus' = r.cached
                      /\ idx' = 1
                      /\ pc' = IF r.cached = <<>> THEN "sleep" ELSE "poll"
                      /\ console_status' =
                             CheckConsoleStatus(running, console_status, now)
                      /\ UNCHANGED remaining_attempts
    /\ UNCHANGED <<cfg, product_enabled, telegram_stopped,
                   running, exit_code, last_stock_status,
                   successful_requests, failed_requests, last_check_success,
                   telegram_connected, now, ev, cooldown_owed>>
    /\ UNCHANGED mgr_vars

\* the counters after a request, mutated: the request is counted as
\* successful as soon as it is made
CountRequest_onSend(request_failed, successful, failed) ==
    [successful_requests |-> successful + 1,
     failed_requests |-> IF request_failed THEN failed + 1 ELSE failed,
     last_check_success |-> ~ request_failed]

\* the counters after a request: lines 524-525 when response.json() has
\* returned, lines 563-564 in the except clause
CountRequest(request_failed, successful, failed) ==
    IF request_failed
    THEN [successful_requests |-> successful,
          failed_requests |-> failed + 1,
          last_check_success |-> FALSE]
    ELSE [successful_requests |-> successful + 1,
          failed_requests |-> failed,
          last_check_success |-> TRUE]

\* the position after the for loop's body for skus[idx]
AfterSku == IF idx < Len(skus) THEN "poll" ELSE "sleep"

\* check_nvidia_stock, lines 509-566: the request of skus[idx] and what
\* follows it up to the next wait; the inventory API answers the request
\* for sku with one of answers[sku], and the channel actions in a subset of
\* `fallible` may fail
PollSku(answers, fallible) ==
    /\ pc = "poll"
    /\ running
    /\ idx <= Len(skus)
    /\ \E resp \in answers[skus[idx]] :
         \E fails \in SUBSET (fallible \cap CheckSku(skus[idx], resp, {}).e.attempted) :
           LET o == CheckSku(skus[idx], resp, fails)
           IN /\ ev' = o.e
              /\ last_stock_status' = o.status
              /\ telegram_connected' = o.connected
              /\ cooldown_owed' = (cooldown_owed \/ o.e.entered)
              /\ LET c == CountRequest(resp.kind = "fail", successful_requests,
                                        failed_requests)
                 IN /\ successful_requests' = c.successful_requests
                    /\ failed_requests' = c.failed_requests
                    /\ last_check_success' = c.last_check_success
              /\ CASE o.e.next = "next" -> /\ pc' = AfterSku
                                           /\ idx' = idx + 1
                   [] o.e.next = "raise" -> /\ pc' = CaughtInLoop
                                            /\ UNCHANGED idx
                   [] OTHER -> /\ pc' = o.e.next
                               /\ UNCHANGED idx
    /\ UNCHANGED <<cfg, product_enabled, console_status, telegram_stopped,
                   running, exit_code, cached_skus,
                   sku_to_name_map, last_sku_check_time, skus,
                   remaining_attempts, now, lr>>
    /\ UNCHANGED mgr_vars

\* line 552: time.sleep(params['cooldown']) returns
CooldownDone ==
    /\ pc = "cooldown"
    /\ now + Cooldown <= MaxTime
    /\ now' = now + Cooldown
    /\ cooldown_owed' = FALSE
    /\ pc' = "spacing"
    /\ UNCHANGED <<cfg, product_enabled, console_status, telegram_stopped,
                   running, exit_code, cached_skus,
                   sku_to_name_map, last_sku_check_time, last_stock_status,
                   successful_requests, failed_requests, last_check_success,
                   telegram_connected, skus, idx, remaining_attempts, ev, lr>>
    /\ UNCHANGED mgr_vars

\* line 560: time.sleep(1) returns
SpacingDone ==
    /\ pc = "spacing"
    /\ now + SpacingWait <= MaxTime
    /\ now' = now + SpacingWait
    /\ pc' = AfterSku
    /\ idx' = idx + 1
    /\ UNCHANGED <<cfg, product_enabled, console_status, telegram_stopped,
                   running, exit_code, cached_skus,
                   sku_to_name_map, last_sku_check_time, last_stock_status,
                   successful_requests, failed_requests, last_check_success,
                   telegram_connected, skus, remaining_attempts, ev,
                   cooldown_owed, lr>>
    /\ UNCHANGED mgr_vars

\* the length of main's sleep, mutated: what is left of check_interval
\* after the cycle
SleepTime_remainder(elapsed) ==
    IF elapsed >= CheckInterval THEN 0 ELSE CheckInterval - elapsed

\* the length of main's sleep after a cycle that took `elapsed`:
\* params['check_interval'] (lines 718 and 723)
SleepTime(elapsed) == CheckInterval

\* lines 718 and 723: time.sleep(params['check_interval']) returns
SleepDone ==
    /\ pc = "sleep"
    /\ now + SleepTime(now - lr.at) <= MaxTime
    /\ now' = now + SleepTime(now - lr.at)
    /\ pc' = "resolve"
    /\ UNCHANGED <<cfg, product_enabled, console_status, telegram_stopped,
                   running, exit_code, cached_skus,
                   sku_to_name_map, last_sku_check_time, last_stock_status,
                   successful_requests, failed_requests, last_check_success,
                   telegram_connected, skus, idx, remaining_attempts, ev,
                   cooldown_owed, lr>>
    /\ UNCHANGED mgr_vars

\* the warning loop's condition, mutated: one warning is enough
MoreWarnings_none(remaining) == FALSE

\* `while remaining_attempts > 0` (line 106) and the test before the wait
\* (line 126)
MoreWarnings(remaining) == remaining > 0

\* handle_product_mismatch, lines 106-129: one warning round; after the
\* last one the function returns False and get_skus_if_needed exits
\* (lines 460-464)
MismatchWarn ==
    /\ pc = "mismatch"
    /\ remaining_attempts > 0
    /\ remaining_attempts' = remaining_attempts - 1
    /\ \E telegram_fails \in (IF cfg.telegram /\ telegram_connected
                              THEN BOOLEAN ELSE {FALSE}) :
           telegram_connected' = (telegram_connected /\ ~ telegram_fails)
    /\ IF MoreWarnings(remaining_attempts - 1)
       THEN /\ now' = now + MismatchWait
            /\ UNCHANGED <<pc, exit_code, running, telegram_stopped>>
       ELSE /\ Exit(1)
            /\ TelegramStop
            /\ UNCHANGED now
    /\ UNCHANGED <<cfg, product_enabled, console_status,
                   cached_skus, sku_to_name_map,
                   last_sku_check_time, last_stock_status, successful_requests,
                   failed_requests, last_check_success, skus, idx, ev,
                   cooldown_owed, lr>>
    /\ UNCHANGED mgr_vars

\* signal_handler, lines 234-246: SIGINT or SIGTERM
Signal ==
    /\ pc # "done"
    /\ Exit(0)
    /\ TelegramStop
    /\ UNCHANGED <<cfg, product_enabled, console_status,
                   cached_skus, sku_to_name_map,
                   last_sku_check_time, last_stock_status, successful_requests,
                   failed_requests, last_check_success, telegram_connected,
                   skus, idx, remaining_attempts, now, ev, cooldown_owed, lr>>
    /\ UNCHANGED mgr_vars

\* AsyncLoopManager.stop_loop (lines 140-144) called by signal_handler:
\* loop.stop() asks the loop's thread to leave run_forever, and
\* loop.close() raises RuntimeError while that thread is still in it.  The
\* two threads race: both outcomes.
StopLoopRaises == BOOLEAN

\* a signal arrives while send_telegram_notification is in its try block
\* (lines 376-379) for skus[idx].  signal_handler clears running and hands
\* telegram_bot.stop() to the loop; when stop_loop raises, the `except
\* Exception` of line 378 catches the handler's exception and the dispatch
\* goes on; otherwise sys.exit(0) ends the process.
SignalInDispatch(answers, fallible) ==
    /\ pc = "poll"
    /\ running
    /\ idx <= Len(skus)
    /\ \E resp \in answers[skus[idx]] :
         \E fails \in SUBSET (fallible \cap CheckSku(skus[idx], resp, {}).e.attempted) :
           LET o == CheckSku(skus[idx], resp, fails)
               c == CountRequest(resp.kind = "fail", successful_requests,
                                 failed_requests)
           IN /\ "telegram" \in o.e.attempted
              /\ ev' = [o.e EXCEPT !.attempted = @ \ {"ntfy"},
                                   !.failed = @ \ {"ntfy"}]
              /\ last_stock_status' = o.status
              /\ telegram_connected' = o.connected
              /\ cooldown_owed' = (cooldown_owed \/ o.e.entered)
              /\ successful_requests' = c.successful_requests
              /\ failed_requests' = c.failed_requests
              /\ last_check_success' = c.last_check_success
    /\ TelegramStop
    /\ \E raises \in StopLoopRaises :
           IF raises
           THEN /\ running' = FALSE
                /\ pc' = "interrupted"
                /\ UNCHANGED exit_code
           ELSE Exit(0)
    /\ UNCHANGED <<cfg, product_enabled, console_status,
                   cached_skus, sku_to_name_map, last_sku_check_time, skus,
                   idx, remaining_attempts, now, lr>>
    /\ UNCHANGED mgr_vars

\* dispatch_stock_notifications goes on after the caught exception: the
\* ntfy notification (lines 359-360, no test of running in
\* send_ntfy_notification), the cooldown of line 552 after an in-stock
\* alert, then `if running` (559), `if not running: return` (510),
\* `if running` (717) and `while running` (713) lead to the finally clause
\* and main() returns
DispatchResumes ==
    /\ pc = "interrupted"
    /\ \E ntfy_fails \in BOOLEAN :
           ev' = [ev EXCEPT
                    !.attempted = @ \cup (IF cfg.ntfy THEN {"ntfy"} ELSE {}),
                    !.failed = @ \cup (IF cfg.ntfy /\ ntfy_fails
                                       THEN {"ntfy"} ELSE {})]
    /\ now' = IF ev.in_stock THEN now + Cooldown ELSE now
    /\ Exit(0)
    /\ TelegramStop
    /\ UNCHANGED <<cfg, product_enabled, console_status,
                   cached_skus, sku_to_name_map,
                   last_sku_check_time, last_stock_status, successful_requests,
                   failed_requests, last_check_success, telegram_connected,
                   skus, idx, remaining_attempts, cooldown_owed, lr>>
    /\ UNCHANGED mgr_vars

\* the channel handlers that post to a web service
Channels == {"ntfy", "home_assistant", "discord"}

\* TelegramNotificationHandler.__init__ (lines 12-24); the scheduler's
\* thread has written the run statistics (init_globals)
\*   sched  where the scheduler's thread is with the handler: "new",
\*          "initializing", "init_check", "active", "inactive", "joining",
\*          "shutdown", "left_out"
\*   polls  how often initialize() has looked for the bot to be connected
\*   init_saw  what initialize() read in connected before it returned
\*   out    the messages handed to bot.send_message, in that order
\*   bot    where the bot thread is: "none", "starting", then the positions
\*          of _process_queue "top", "waiting", "got", "sending", "exited",
\*          and "ended" when the thread is over
\*   access who touched which attribute: <<name, thread, "r" or "w">>
TgNew ==
    [connected |-> FALSE, stop_event |-> FALSE, queue |-> <<>>,
     sched |-> "new", bot |-> "none", item |-> 0, n |-> 0,
     polls |-> 0, init_saw |-> FALSE, out |-> <<>>,
     accepted |-> {}, refused |-> {}, sent |-> {}, logged |-> {},
     shutdown_complete |-> FALSE,
     access |-> {<<"RunStats", "scheduler", "w">>}]

\* a handler of Channels after its initialize() returned True
\* (ntfy.py line 77, home_assistant.py line 41, discord.py line 34)
ChNew == [c \in Channels |-> [connected |-> TRUE, attempted |-> {}, refused |-> {}]]

\* no gather was started
GaNone == [state |-> <<>>, kind |-> <<>>, holder |-> 0]

HandlersIdle ==
    /\ tg = TgNew
    /\ ch = ChNew
    /\ ga = GaNone

\* the NotificationManager is no part of the monolithic checker
MgrIdle ==
    /\ HandlersIdle
    /\ flavor = "none"
    /\ registered = <<>>
    /\ handlers = <<>>
    /\ mgr_pc = "none"
    /\ calls = <<>>
    /\ init_outcome = <<>>
    /\ op = <<>>

(***************************************************************************)
(* Specifications of the monolithic checker.  They share the actions and   *)
(* differ in the configurations the run starts from and in the answers the *)
(* two vendor APIs give.                                                   *)
(***************************************************************************)
AllOff == [open_browser |-> FALSE, play_sound |-> FALSE,
           telegram |-> FALSE, ntfy |-> FALSE]

Entry(sku, name) == [productSKU |-> sku, displayName |-> name]

OkFetch(entries) == [kind |-> "ok", entries |-> entries]

\* the answer for a sku whose record carries that sku as fe_sku
OwnItem(sku, is_active, product_url) ==
    [kind |-> "item", fe_sku |-> sku, is_active |-> is_active,
     product_url |-> product_url]

Failure == [kind |-> "fail", fe_sku |-> "", is_active |-> "", product_url |-> ""]

EmptyList == [kind |-> "empty", fe_sku |-> "", is_active |-> "", product_url |-> ""]

\* ---- Spec: SKU resolution.  Every catalog answer and every product
\* configuration; ntfy is the only channel; the inventory API fails or
\* reports the sku in stock.
ResolveAnswers(sku) == {Failure, OwnItem(sku, "true", "")}

Init ==
    /\ CheckerInit({[AllOff EXCEPT !.ntfy = TRUE]}, ProductConfigs)
    /\ MgrIdle

Next ==
    \/ NoCards
    \/ InitialSkuCheck(CatalogFetches)
    \/ CycleStart(CatalogFetches)
    \/ PollSku([sku \in SKUS |-> ResolveAnswers(sku)], {})
    \/ CooldownDone
    \/ SpacingDone
    \/ SleepDone
    \/ MismatchWarn
    \/ Signal

Spec == Init /\ [][Next]_vars


\* ---- SpecPoll: the stock check.  One card is configured (or none); the
\* catalog lists it under one SKU or under two; every inventory answer;
\* ntfy is enabled, the browser is or is not.
PollFetches ==
    { [kind |-> "fail", entries |-> <<>>],
      OkFetch(<<>>),
      OkFetch(<<Entry("SKU1", <<"r", "A">>)>>),
      OkFetch(<<Entry("SKU1", <<"r", "A">>), Entry("SKU2", <<"r", "A">>)>>) }

PollProducts == { p \in ProductConfigs : ~ p[2] }

AnyAnswer(sku) == Responses

PollConfigs == { c \in Configs : c.ntfy /\ ~ c.telegram /\ ~ c.play_sound }

InitPoll ==
    /\ CheckerInit(PollConfigs, PollProducts)
    /\ MgrIdle

NextPoll ==
    \/ NoCards
    \/ InitialSkuCheck(PollFetches)
    \/ CycleStart(PollFetches)
    \/ PollSku([sku \in SKUS |-> AnyAnswer(sku)], FallibleChannels)
    \/ CooldownDone
    \/ SpacingDone
    \/ SleepDone
    \/ MismatchWarn
    \/ Signal

SpecPoll == InitPoll /\ [][NextPoll]_vars


\* ---- SpecAlert: the dispatch of an alert.  Every channel configuration
\* and every set of failing channels; the inventory API fails or reports
\* the requested sku, in stock or out of stock.
AlertAnswers(sku) ==
    {Failure, OwnItem(sku, "true", ""), OwnItem(sku, "false", "")}

InitAlert ==
    /\ CheckerInit(Configs, PollProducts)
    /\ MgrIdle

NextAlert ==
    \/ NoCards
    \/ InitialSkuCheck(PollFetches)
    \/ CycleStart(PollFetches)
    \/ PollSku([sku \in SKUS |-> AlertAnswers(sku)], FallibleChannels)
    \/ CooldownDone
    \/ SpacingDone
    \/ SleepDone
    \/ MismatchWarn
    \/ Signal

SpecAlert == InitAlert /\ [][NextAlert]_vars


\* ---- SpecStop: the shutdown signal.  SpecAlert's runs, and the signal
\* handler running inside a dispatch.
InitStop ==
    /\ CheckerInit(Configs, PollProducts)
    /\ MgrIdle

NextStop ==
    \/ InitialSkuCheck(PollFetches)
    \/ CycleStart(PollFetches)
    \/ PollSku([sku \in SKUS |-> AlertAnswers(sku)], FallibleChannels)
    \/ SignalInDispatch([sku \in SKUS |-> AlertAnswers(sku)], FallibleChannels)
    \/ DispatchResumes
    \/ CooldownDone
    \/ SpacingDone
    \/ SleepDone
    \/ Signal

SpecStop == InitStop /\ [][NextStop]_vars


\* ---- SpecDue: when a refresh is due.  The run is observed from its first
\* cycle, after an initial check that cached SKU1 for card 1.
\* last_sku_check_time and datetime.now() are wall-clock readings: the
\* process may have been stopped, or the clock set, since the initial
\* check, so that the time elapsed is anything from nothing to more than a
\* day.
DueElapsed == (0..MaxTime) \cup { SecondsPerDay + d : d \in 0..MaxTime }

\* the time of the last refresh that succeeded: the start of the
\* observation, or nearly a day before it (every refresh since has failed)
DueStarts == {0, CheckInterval - SecondsPerDay}

InitDue ==
    /\ cfg = [AllOff EXCEPT !.ntfy = TRUE]
    /\ product_enabled = [j \in DOMAIN CardNames |-> j = 1]
    /\ running = TRUE
    /\ cached_skus = <<"SKU1">>
    /\ sku_to_name_map = ToMap(<< <<"SKU1", <<"r", "A">> >> >>)
    /\ last_sku_check_time \in DueStarts
    /\ last_stock_status = EmptyStatus
    /\ successful_requests = 0
    /\ failed_requests = 0
    /\ last_check_success = TRUE
    /\ telegram_connected = FALSE
    /\ telegram_stopped = FALSE
    \* init_globals, line 62: last_console_status_time is the time of the start
    /\ console_status = NoStatusCheck(TRUE, 0)
    /\ pc = "resolve"
    /\ exit_code = -1
    /\ skus = <<>>
    /\ idx = 1
    /\ remaining_attempts = 0
    /\ now \in DueElapsed
    /\ ev = NoEvent
    /\ cooldown_owed = FALSE
    /\ lr = NoRefresh
    /\ MgrIdle

NextDue ==
    \/ CycleStart(PollFetches)
    \/ PollSku([sku \in SKUS |-> ResolveAnswers(sku)], {})
    \/ CooldownDone
    \/ SpacingDone
    \/ SleepDone
    \/ MismatchWarn
    \/ Signal

SpecDue == InitDue /\ [][NextDue]_vars


(***************************************************************************)
(* NotificationManager (handlers/__init__.py and handler/__init__.py).     *)
(* A handler is a number; what its methods do is an input of each          *)
(* operation: initialize() returns true, returns false or raises, every    *)
(* other method returns or raises.                                         *)
(***************************************************************************)
HandlerIds == 1..NHandlers

Methods == {"initialize", "shutdown", "send_stock_alert", "send_status_update",
            "send_startup_message"}

SendMethods == {"send_stock_alert", "send_status_update", "send_startup_message"}

InitOutcomes == {"true", "false", "raise"}

Range(s) == { s[k] : k \in DOMAIN s }

\* initialize_handlers, mutated: the first exception leaves the loop
InitializeHandlers_abort(hs, outcome) ==
    LET F[j \in 0..Len(hs)] ==
            IF j = 0 THEN [initialized |-> <<>>, invoked |-> <<>>, raised |-> FALSE]
            ELSE IF F[j - 1].raised THEN F[j - 1]
            ELSE [initialized |-> IF outcome[hs[j]] = "true"
                                  THEN Append(F[j - 1].initialized, hs[j])
                                  ELSE F[j - 1].initialized,
                  invoked |-> Append(F[j - 1].invoked, hs[j]),
                  raised |-> outcome[hs[j]] = "raise"]
    IN F[Len(hs)]

\* initialize_handlers: for handler in self.handlers: try: if await
\* handler.initialize(): append; except Exception: print
\*   initialized  the new self.handlers
\*   invoked      the handlers whose initialize() was called, in order
\*   raised       the method raised to its caller
InitializeHandlers(hs, outcome) ==
    LET F[j \in 0..Len(hs)] ==
            IF j = 0 THEN [initialized |-> <<>>, invoked |-> <<>>, raised |-> FALSE]
            ELSE IF F[j - 1].raised THEN F[j - 1]
            ELSE [initialized |-> IF outcome[hs[j]] = "true"
                                  THEN Append(F[j - 1].initialized, hs[j])
                                  ELSE F[j - 1].initialized,
                  invoked |-> Append(F[j - 1].invoked, hs[j]),
                  \* the exception is caught inside the loop
                  raised |-> FALSE]
    IN F[Len(hs)]

\* a loop over the handlers without a try: the first exception leaves it
UntilFirstRaise(hs, raises) ==
    LET F[j \in 0..Len(hs)] ==
            IF j = 0 THEN [invoked |-> <<>>, raised |-> FALSE]
            ELSE IF F[j - 1].raised THEN F[j - 1]
            ELSE [invoked |-> Append(F[j - 1].invoked, hs[j]),
                  raised |-> hs[j] \in raises]
    IN F[Len(hs)]

\* for handler in self.handlers: try: await handler.m(...); except
\* Exception: print
TryEach(hs, raises) ==
    LET F[j \in 0..Len(hs)] ==
            IF j = 0 THEN [invoked |-> <<>>, raised |-> FALSE]
            ELSE IF F[j - 1].raised THEN F[j - 1]
            ELSE [invoked |-> Append(F[j - 1].invoked, hs[j]),
                  \* the exception is caught inside the loop
                  raised |-> FALSE]
    IN F[Len(hs)]

\* shutdown_handlers, mutated: no try around handler.shutdown()
ShutdownHandlers_noTry(hs, raises) == UntilFirstRaise(hs, raises)

\* shutdown_handlers
ShutdownHandlers(hs, raises) == TryEach(hs, raises)

\* send_status_update, mutated: no try around the handler's method
SendStatusUpdate_noTry(hs, raises) == UntilFirstRaise(hs, raises)

\* send_status_update
SendStatusUpdate(hs, raises) == TryEach(hs, raises)

\* send_startup_message
SendStartupMessage(hs, raises) == TryEach(hs, raises)

\* send_stock_alert of handlers/__init__.py: asyncio.gather over one
\* coroutine per handler with return_exceptions=True; every coroutine runs
\* and an exception becomes its result
GatherStockAlert(hs, raises) ==
    [invoked |-> hs, raised |-> FALSE]

\* send_stock_alert of the package `fl`
SendStockAlert(fl, hs, raises) ==
    IF fl = "handlers" THEN GatherStockAlert(hs, raises) ELSE TryEach(hs, raises)

NoCalls == [m \in Methods |-> [h \in HandlerIds |-> 0]]

\* calls after method m was invoked on the handlers of `invoked`
Count(m, invoked) ==
    [calls EXCEPT ![m] = [h \in HandlerIds |->
                              calls[m][h] + Cardinality({k \in DOMAIN invoked :
                                                             invoked[k] = h})]]

NoOp == [name |-> "none", n |-> 0, targets |-> <<>>, raises |-> {},
         invoked |-> <<>>, raised |-> FALSE]

MgrInit ==
    /\ HandlersIdle
    /\ flavor \in {"handlers", "handler"}
    /\ registered = [k \in HandlerIds |-> k]
    /\ handlers = registered
    /\ mgr_pc = "registered"
    /\ calls = NoCalls
    /\ init_outcome = [h \in HandlerIds |-> "none"]
    /\ op = NoOp

\* await manager.initialize_handlers()
Initialize ==
    /\ mgr_pc = "registered"
    /\ \E outcome \in [HandlerIds -> InitOutcomes] :
           LET r == InitializeHandlers(handlers, outcome)
           IN /\ handlers' = r.initialized
              /\ calls' = Count("initialize", r.invoked)
              /\ init_outcome' = [h \in HandlerIds |->
                                     IF h \in Range(r.invoked) THEN outcome[h]
                                     ELSE "none"]
              /\ op' = [name |-> "initialize", n |-> 0, targets |-> handlers,
                        raises |-> { h \in HandlerIds : outcome[h] = "raise" },
                        invoked |-> r.invoked, raised |-> r.raised]
              /\ mgr_pc' = IF r.raised THEN "raised" ELSE "initialized"
    /\ UNCHANGED <<flavor, registered>>
    /\ UNCHANGED checker_vars
    /\ UNCHANGED handler_vars

\* one of the three send methods of the manager
Send(m) ==
    /\ mgr_pc = "initialized"
    /\ op.n < MaxOps
    /\ \E raises \in SUBSET Range(handlers) :
           LET r == CASE m = "send_stock_alert" -> SendStockAlert(flavor, handlers, raises)
                      [] m = "send_status_update" -> SendStatusUpdate(handlers, raises)
                      [] OTHER -> SendStartupMessage(handlers, raises)
           IN /\ calls' = Count(m, r.invoked)
              /\ op' = [name |-> m, n |-> op.n + 1, targets |-> handlers,
                        raises |-> raises, invoked |-> r.invoked,
                        raised |-> r.raised]
              /\ mgr_pc' = IF r.raised THEN "raised" ELSE mgr_pc
    /\ UNCHANGED <<flavor, registered, handlers, init_outcome>>
    /\ UNCHANGED checker_vars
    /\ UNCHANGED handler_vars

StockAlert == Send("send_stock_alert")

StatusUpdate == Send("send_status_update")

StartupMessage == Send("send_startup_message")

\* await manager.shutdown_handlers()
Shutdown ==
    /\ mgr_pc = "initialized"
    /\ \E raises \in SUBSET Range(handlers) :
           LET r == ShutdownHandlers(handlers, raises)
           IN /\ calls' = Count("shutdown", r.invoked)
              /\ op' = [name |-> "shutdown", n |-> op.n, targets |-> handlers,
                        raises |-> raises, invoked |-> r.invoked,
                        raised |-> r.raised]
              /\ mgr_pc' = IF r.raised THEN "raised" ELSE "shutdown"
    /\ UNCHANGED <<flavor, registered, handlers, init_outcome>>
    /\ UNCHANGED checker_vars
    /\ UNCHANGED handler_vars

\* the monolithic checker is no part of the handlers packages
CheckerIdle ==
    /\ cfg = AllOff
    /\ product_enabled = [k \in DOMAIN CardNames |-> FALSE]
    /\ running = FALSE
    /\ cached_skus = <<>>
    /\ sku_to_name_map = EmptyMap
    /\ last_sku_check_time = NoTime
    /\ last_stock_status = EmptyStatus
    /\ successful_requests = 0
    /\ failed_requests = 0
    /\ last_check_success = TRUE
    /\ telegram_connected = FALSE
    /\ telegram_stopped = FALSE
    /\ console_status = NoStatusCheck(FALSE, 0)
    /\ pc = "none"
    /\ exit_code = -1
    /\ skus = <<>>
    /\ idx = 1
    /\ remaining_attempts = 0
    /\ now = 0
    /\ ev = NoEvent
    /\ cooldown_owed = FALSE
    /\ lr = NoRefresh

InitMgr == MgrInit /\ CheckerIdle

NextMgr ==
    \/ Initialize
    \/ StockAlert
    \/ StatusUpdate
    \/ StartupMessage
    \/ Shutdown

SpecMgr == InitMgr /\ [][NextMgr]_vars

(***************************************************************************)
(* The handlers of the handlers package.  The scheduler's thread calls     *)
(* initialize, the send methods and shutdown; the Telegram handler runs    *)
(* its bot in a thread of its own, fed through self._queue.                *)
(***************************************************************************)
Touch(t, thread, name, how) == t.access \cup {<<name, thread, how>>}

\* initialize(), lines 26-35: the bot thread is started
TgInitialize ==
    /\ tg.sched = "new"
    /\ tg' = [tg EXCEPT !.sched = "initializing", !.bot = "starting"]
    /\ UNCHANGED <<ch, ga>>
    /\ UNCHANGED checker_vars
    /\ UNCHANGED nm_vars

\* _bot_main, lines 177-203: the application starts and connected is set,
\* or it raises and _run_telegram_bot ends the thread (lines 210-213,
\* 169-175)
BotConnect ==
    /\ tg.bot = "starting"
    /\ \E ok \in BOOLEAN :
           tg' = [tg EXCEPT !.connected = ok,
                            !.bot = IF ok THEN "top" ELSE "ended",
                            !.access = Touch(tg, "bot", "connected", "w")]
    /\ UNCHANGED <<ch, ga>>
    /\ UNCHANGED checker_vars
    /\ UNCHANGED nm_vars

\* range(10) in initialize(), line 37
InitPolls == 10

\* initialize(), lines 37-40: one round of the wait for the bot; the loop
\* is left when the bot is connected or the stop event set, and after the
\* last round's sleep
TgInitPoll ==
    /\ tg.sched = "initializing"
    /\ tg.polls < InitPolls
    /\ tg' = [tg EXCEPT !.polls = @ + 1,
                        !.sched = IF \/ tg.connected
                                     \/ tg.stop_event
                                     \/ tg.polls + 1 = InitPolls
                                  THEN "init_check" ELSE @,
                        !.access = Touch(tg, "scheduler", "connected", "r")]
    /\ UNCHANGED <<ch, ga>>
    /\ UNCHANGED checker_vars
    /\ UNCHANGED nm_vars

\* what initialize() returns, mutated: the handler is reported ready
TgInitResult_ready(connected) == "active"

\* initialize(), lines 42-47: True exactly if connected is set; the manager
\* keeps the handler ("active") or drops it ("inactive")
TgInitResult(connected) == IF connected THEN "active" ELSE "inactive"

\* initialize(), lines 42-47: the wait is over and connected is read for
\* the result
TgInitDone ==
    /\ tg.sched = "init_check"
    /\ tg' = [tg EXCEPT !.sched = TgInitResult(tg.connected),
                        !.init_saw = tg.connected,
                        !.access = Touch(tg, "scheduler", "connected", "r")]
    /\ UNCHANGED <<ch, ga>>
    /\ UNCHANGED checker_vars
    /\ UNCHANGED nm_vars

\* self._queue.put, mutated: the item goes to the head of the queue
QueuePut_first(queue, item) == <<item>> \o queue

\* self._queue.put(item) on the unbounded asyncio.Queue
QueuePut(queue, item) == Append(queue, item)

\* TelegramNotificationHandler.send_stock_alert, lines 301-304: the alert
\* is put on the queue unless the handler is not connected
TgSendStockAlert(t, alert) ==
    IF t.connected
    THEN [t EXCEPT !.queue = QueuePut(t.queue, alert),
                   !.accepted = @ \cup {alert},
                   !.access = Touch(t, "scheduler", "connected", "r")]
    ELSE [t EXCEPT !.refused = @ \cup {alert},
                   !.access = Touch(t, "scheduler", "connected", "r")]

\* send_stock_alert and _send_notification of the ntfy and Home Assistant
\* handlers, send_stock_alert and _send_webhook of the Discord handler: no
\* request is made when connected is cleared, and a failed request clears
\* connected
ChSendStockAlert(c, alert, fails) ==
    IF c.connected
    THEN [c EXCEPT !.attempted = @ \cup {alert},
                   !.connected = ~ fails]
    ELSE [c EXCEPT !.refused = @ \cup {alert}]

\* one stock alert handed to every handler the manager holds
HandlersSendStockAlert ==
    /\ tg.sched \in {"active", "inactive"}
    /\ tg.n < MaxAlerts
    /\ LET alert == tg.n + 1
           t == [tg EXCEPT !.n = alert]
       IN /\ tg' = IF tg.sched = "active" THEN TgSendStockAlert(t, alert)
                   ELSE t
          /\ \E failing \in SUBSET Channels :
                 ch' = [c \in Channels |->
                           ChSendStockAlert(ch[c], alert, c \in failing)]
    /\ UNCHANGED ga
    /\ UNCHANGED checker_vars
    /\ UNCHANGED nm_vars

\* send_status_update and send_startup_message, lines 306-314: as
\* send_stock_alert, with a message of the other two types
TgSendMessage ==
    /\ tg.sched = "active"
    /\ tg.n < MaxAlerts
    /\ \E msg_type \in {"status", "startup"} :
           tg' = TgSendStockAlert([tg EXCEPT !.n = tg.n + 1], tg.n + 1)
    /\ UNCHANGED <<ch, ga>>
    /\ UNCHANGED checker_vars
    /\ UNCHANGED nm_vars

\* _process_queue, line 217: the loop condition
BotLoopTop ==
    /\ tg.bot = "top"
    /\ tg' = [tg EXCEPT !.bot = IF tg.stop_event THEN "exited" ELSE "waiting"]
    /\ UNCHANGED <<ch, ga>>
    /\ UNCHANGED checker_vars
    /\ UNCHANGED nm_vars

\* _process_queue, line 222: self._queue.get() returns an item
BotGet ==
    /\ tg.bot = "waiting"
    /\ tg.queue # <<>>
    /\ tg' = [tg EXCEPT !.bot = "got", !.item = Head(tg.queue),
                        !.queue = Tail(tg.queue)]
    /\ UNCHANGED <<ch, ga>>
    /\ UNCHANGED checker_vars
    /\ UNCHANGED nm_vars

\* _process_queue, lines 223-227: the get timed out
BotTimeout ==
    /\ tg.bot = "waiting"
    /\ tg.queue = <<>>
    /\ tg' = [tg EXCEPT !.bot = IF tg.stop_event THEN "exited" ELSE "top"]
    /\ UNCHANGED <<ch, ga>>
    /\ UNCHANGED checker_vars
    /\ UNCHANGED nm_vars

\* _process_queue, lines 236-238: with the stop event set the loop is left
\* and the item in hand is forgotten
BotCheck ==
    /\ tg.bot = "got"
    /\ tg' = IF tg.stop_event
             THEN [tg EXCEPT !.bot = "exited", !.item = 0]
             ELSE [tg EXCEPT !.bot = "sending"]
    /\ UNCHANGED <<ch, ga>>
    /\ UNCHANGED checker_vars
    /\ UNCHANGED nm_vars

\* _send_stock_alert_internal, lines 316-334: the message is sent, or the
\* failure is reported and connected is cleared
BotSend ==
    /\ tg.bot = "sending"
    /\ \E ok \in BOOLEAN :
           tg' = IF ok
                 THEN [tg EXCEPT !.sent = @ \cup {tg.item}, !.item = 0,
                                 !.out = Append(@, tg.item),
                                 !.bot = "top"]
                 ELSE [tg EXCEPT !.logged = @ \cup {tg.item}, !.item = 0,
                                 !.out = Append(@, tg.item),
                                 !.bot = "top", !.connected = FALSE,
                                 !.access = Touch(tg, "bot", "connected", "w")]
    /\ UNCHANGED <<ch, ga>>
    /\ UNCHANGED checker_vars
    /\ UNCHANGED nm_vars

\* status_command, lines 54-92: the bot thread reads connected and the run
\* statistics of the main module
BotStatusCommand ==
    /\ tg.bot \in {"top", "waiting", "got", "sending", "exited"}
    /\ tg' = [tg EXCEPT !.access = Touch(tg, "bot", "connected", "r")
                                      \cup {<<"RunStats", "bot", "r">>}]
    /\ UNCHANGED <<ch, ga>>
    /\ UNCHANGED checker_vars
    /\ UNCHANGED nm_vars

\* _bot_main, lines 206-210, and _run_telegram_bot, lines 172-175: the stop
\* event ends the wait, the bot is shut down, run_until_complete returns
\* and the loop is closed with _process_queue wherever it is
BotMainExit ==
    /\ tg.bot \in {"top", "waiting", "got", "sending", "exited"}
    /\ tg.stop_event
    /\ tg' = [tg EXCEPT !.bot = "ended", !.item = 0, !.connected = FALSE,
                        !.access = Touch(tg, "bot", "connected", "w")]
    /\ UNCHANGED <<ch, ga>>
    /\ UNCHANGED checker_vars
    /\ UNCHANGED nm_vars

\* shutdown(), lines 279-283: the stop event is set
TgShutdown ==
    /\ tg.sched = "active"
    /\ tg' = [tg EXCEPT !.stop_event = TRUE, !.sched = "joining"]
    /\ UNCHANGED <<ch, ga>>
    /\ UNCHANGED checker_vars
    /\ UNCHANGED nm_vars

\* NotificationManager.shutdown_handlers (handlers/__init__.py lines
\* 77-83) runs while the handler is not in self.handlers, initialize()
\* having returned False: nothing of the handler is called
TgLeftOut ==
    /\ tg.sched = "inactive"
    /\ tg' = [tg EXCEPT !.sched = "left_out"]
    /\ UNCHANGED <<ch, ga>>
    /\ UNCHANGED checker_vars
    /\ UNCHANGED nm_vars

\* shutdown(), lines 285-298: the join returns, because the thread ended
\* or after two seconds, and shutdown is complete
TgShutdownDone ==
    /\ tg.sched = "joining"
    /\ tg' = [tg EXCEPT !.shutdown_complete = TRUE, !.sched = "shutdown"]
    /\ UNCHANGED <<ch, ga>>
    /\ UNCHANGED checker_vars
    /\ UNCHANGED nm_vars

InitTg == CheckerIdle /\ MgrIdle

NextTg ==
    \/ TgInitialize
    \/ BotConnect
    \/ TgInitPoll
    \/ TgInitDone
    \/ HandlersSendStockAlert
    \/ TgSendMessage
    \/ BotLoopTop
    \/ BotGet
    \/ BotTimeout
    \/ BotCheck
    \/ BotSend
    \/ BotStatusCommand
    \/ BotMainExit
    \/ TgShutdown
    \/ TgLeftOut
    \/ TgShutdownDone

SpecTg == InitTg /\ [][NextTg]_vars

(***************************************************************************)
(* NotificationManager.send_stock_alert of the handlers package: the       *)
(* coroutines of the handlers are gathered on the one event loop of the    *)
(* scheduler's thread.  A task runs until it awaits something that is not  *)
(* ready; a call that does not await keeps the loop until it returns.      *)
(***************************************************************************)
HandlerKinds == {"discord", "sound", "ntfy", "telegram"}

\* the delivery is a call that does not await: webhook.execute() in
\* DiscordNotificationHandler._send_webhook, subprocess.run in
\* SoundNotificationHandler.send_stock_alert
Blocks(kind) == kind \in {"discord", "sound"}

\* the delivery awaits the answer of the server: session.post in
\* NtfyNotificationHandler._send_notification
Suspends(kind) == kind = "ntfy"

Tasks == 1..MaxTasks

\* asyncio.gather(*[handler.send_stock_alert(...) for handler in
\* self.handlers]): one task per handler, none started
GatherStart ==
    /\ ga = GaNone
    /\ \E kinds \in [Tasks -> HandlerKinds] :
           ga' = [state |-> [h \in Tasks |-> "pending"], kind |-> kinds,
                  holder |-> 0]
    /\ UNCHANGED <<tg, ch>>
    /\ UNCHANGED checker_vars
    /\ UNCHANGED nm_vars

\* the loop runs the first step of the next task, in the order of the
\* handlers: send_stock_alert of the handler up to the end of its delivery
\* or to the await that suspends it
TaskStart(h) ==
    /\ ga # GaNone
    /\ ga.holder = 0
    /\ ga.state[h] = "pending"
    /\ \A j \in Tasks : j < h => ga.state[j] # "pending"
    /\ ga' = IF Blocks(ga.kind[h])
             THEN [ga EXCEPT !.state[h] = "delivering", !.holder = h]
             ELSE IF Suspends(ga.kind[h])
             THEN [ga EXCEPT !.state[h] = "delivering"]
             ELSE [ga EXCEPT !.state[h] = "done"]
    /\ UNCHANGED <<tg, ch>>
    /\ UNCHANGED checker_vars
    /\ UNCHANGED nm_vars

\* the call that kept the loop returns
BlockingReturns(h) ==
    /\ ga # GaNone
    /\ ga.holder = h
    /\ ga' = [ga EXCEPT !.state[h] = "done", !.holder = 0]
    /\ UNCHANGED <<tg, ch>>
    /\ UNCHANGED checker_vars
    /\ UNCHANGED nm_vars

\* the server answered and the loop resumes the task that awaited it
AwaitReturns(h) ==
    /\ ga # GaNone
    /\ ga.holder = 0
    /\ ga.state[h] = "delivering"
    /\ ga' = [ga EXCEPT !.state[h] = "done"]
    /\ UNCHANGED <<tg, ch>>
    /\ UNCHANGED checker_vars
    /\ UNCHANGED nm_vars

InitGather == CheckerIdle /\ MgrIdle

NextGather ==
    \/ GatherStart
    \/ \E h \in Tasks : TaskStart(h)
    \/ \E h \in Tasks : BlockingReturns(h)
    \/ \E h \in Tasks : AwaitReturns(h)

SpecGather == InitGather /\ [][NextGather]_vars


(***************************************************************************)
(* Properties.                                                             *)
(***************************************************************************)
Requests == successful_requests + failed_requests

\* C1 (SpecPoll): when an SKU is requested twice in succession and the
\* inventory API gives the same record both times, an alert is dispatched
\* on the first observation of the SKU and none on the repeated answer.
C1_IdenticalAnswerAlertsOnce ==
    ev.resp.kind = "item" =>
        /\ (ev.first => ev.alerts = 1)
        /\ (ev.repeat => ev.alerts = 0)

\* C2 as claimed (SpecPoll): an SKU first observed out of stock and found
\* in stock by the next request gets exactly one alert over the two
\* requests, on the second.
C2_OnlyInStockAlert ==
    (ev.after_first_out /\ ev.in_stock) =>
        (ev.prev_alerts = 0 /\ ev.alerts = 1)

\* C2 as amended (SpecPoll): an SKU first observed out of stock and found
\* in stock by the next request gets an alert on each of the two requests:
\* the first observation is a transition too, dispatched out of stock.
C2_BothObservationsAlert ==
    /\ (ev.first /\ ~ ev.in_stock) => ev.alerts = 1
    /\ (ev.after_first_out /\ ev.in_stock) =>
           (ev.prev_alerts = 1 /\ ev.alerts = 1)

C2_Witness ==
    /\ ev.after_first_out
    /\ ev.in_stock
    /\ ev.alerts = 1
    /\ ev.resp.product_url = ""

\* C3 (SpecAlert): an observation of an SKU entering "in stock" dispatches
\* one alert and starts the cooldown wait, and no inventory request is
\* issued while a cooldown wait is owed, whatever channels are enabled.
C3_CooldownAfterInStock ==
    /\ ev.entered => (ev.alerts = 1 /\ ev.next = "cooldown")
    /\ ~ ev.owed

\* C5 (SpecAlert): when an alert is dispatched every enabled channel is
\* attempted, whichever channel actions fail, and no exception leaves
\* dispatch_stock_notifications.
C5_ChannelFailureIsolated ==
    ev.alerts = 1 => (ev.attempted = ev.enabled /\ ~ ev.escaped)

\* C4 (SpecMgr): each send method of the manager invokes the handler
\* method on every active handler once, in order, and returns without
\* raising, whichever handlers raise.
C4_SendReachesEveryHandler ==
    op.name \in SendMethods =>
        (op.invoked = op.targets /\ ~ op.raised)

C4_Witness ==
    /\ op.name = "send_status_update"
    /\ Len(op.targets) >= 2
    /\ op.targets[1] \in op.raises
    /\ calls["send_status_update"][op.targets[2]] >= 1
    /\ \E h \in HandlerIds : calls["send_stock_alert"][h] >= 1

\* C6 (SpecMgr): after initialize_handlers the active handlers are the
\* registered ones whose initialize() returned true, in registration
\* order; initialize() was called on every registered handler; a handler
\* that was dropped is never sent anything.
C6_ActiveAreInitialized ==
    mgr_pc # "registered" =>
        /\ handlers = SelectSeq(registered, LAMBDA h : init_outcome[h] = "true")
        /\ \A h \in Range(registered) : calls["initialize"][h] = 1
        /\ \A h \in Range(registered) :
               init_outcome[h] # "true" =>
                   \A m \in SendMethods : calls[m][h] = 0

C6_Witness ==
    /\ mgr_pc = "initialized"
    /\ init_outcome[1] = "raise"
    /\ init_outcome[2] = "true"
    /\ op.name = "send_stock_alert"
    /\ calls["send_stock_alert"][2] = 1
    /\ calls["send_stock_alert"][1] = 0

\* C7 (SpecMgr): shutdown_handlers calls shutdown() on every active
\* handler, also after one whose shutdown() raised, and does not raise.
C7_ShutdownReachesEveryHandler ==
    op.name = "shutdown" =>
        (op.invoked = op.targets /\ ~ op.raised)

C7_Witness ==
    /\ op.name = "shutdown"
    /\ mgr_pc = "shutdown"
    /\ Len(op.targets) >= 2
    /\ op.targets[1] \in op.raises
    /\ calls["shutdown"][op.targets[2]] = 1

\* the last refresh fetched a catalog (its answer was no failure)
Fetched == lr.kind \in {"ok", "mismatch"}

\* C8 (Spec): a failing refresh returns the cached list unchanged and does
\* not raise when a cache exists; without a cache it raises, and the
\* initial check then ends the process before any inventory request.
C8_RefreshFailure ==
    lr.kind = "fail" =>
        IF lr.had_cache
        THEN /\ ~ lr.raised
             /\ lr.returned = lr.before
             /\ cached_skus = lr.before
        ELSE /\ lr.raised
             /\ lr.forced
             /\ pc = "done"
             /\ Requests = 0

C8_Witness ==
    /\ lr.kind = "fail"
    /\ lr.had_cache
    /\ ~ lr.raised
    /\ cached_skus = lr.before
    /\ Requests > lr.requests_at

\* C9 (Spec): after a catalog was fetched in which no selected product is
\* found, the process is in the warning rounds or has ended (with status 1
\* once the rounds are over), and no inventory request follows.
C9_NoMatchIsFatal ==
    (Fetched /\ lr.n_selected > 0 /\ lr.n_missing = lr.n_selected) =>
        /\ pc \in {"mismatch", "done"}
        /\ Requests = lr.requests_at
        /\ (pc = "done" /\ remaining_attempts = 0) => exit_code = 1

C9_Witness ==
    /\ Fetched
    /\ lr.n_missing = lr.n_selected
    /\ lr.n_selected > 0
    /\ pc = "done"
    /\ exit_code = 1

\* some, but not all, of the selected products are missing from the
\* catalog the last refresh fetched
PartialMismatch == Fetched /\ 0 < lr.n_missing /\ lr.n_missing < lr.n_selected

\* C10 as claimed (Spec): on a partial mismatch the refresh returns SKUs
\* and the process goes on.
C10_PartialMismatchContinues ==
    PartialMismatch => (lr.kind = "ok" /\ exit_code # 1)

\* C10 as amended (Spec): a partial mismatch is handled as a total one: the
\* refresh returns no list, the process is in the warning rounds or has
\* ended (with status 1 once the rounds are over), the cache is not
\* replaced and no inventory request follows.
C10_PartialMismatchIsFatal ==
    PartialMismatch =>
        /\ lr.kind = "mismatch"
        /\ pc \in {"mismatch", "done"}
        /\ cached_skus = lr.before
        /\ Requests = lr.requests_at
        /\ (pc = "done" /\ remaining_attempts = 0) => exit_code = 1

C10_Witness ==
    /\ PartialMismatch
    /\ lr.had_cache
    /\ pc = "done"
    /\ exit_code = 1


(***************************************************************************)
(* The SKU list a refresh serves.                                          *)
(***************************************************************************)
\* the catalog the last refresh fetched, as all_products
LastCatalog == CollectProducts(lr.fetch.entries)

\* the display name the last fetched catalog gives sku
LastName(sku) == ToMap(LastCatalog)[sku]

\* the last refresh fetched a catalog in which every selected product is found
AllFound == Fetched /\ lr.n_missing = 0

\* C11 as claimed (Spec): when every selected product is found in the
\* catalog, the refresh returns as many SKUs as products are enabled, all
\* of them keys of the catalog.
C11_SizeIsEnabledCount ==
    AllFound =>
        /\ Len(lr.returned) = lr.n_selected
        /\ \A k \in DOMAIN lr.returned : lr.returned[k] \in DictKeys(LastCatalog)

\* C11 as amended (Spec): when every selected product is found in the
\* catalog, the refresh returns, without repetition, exactly the catalog's
\* SKUs whose name contains an enabled product's name; every selected
\* product has such a SKU in the list.
C11_EveryMatchingSku ==
    AllFound =>
        /\ lr.kind = "ok"
        /\ \A s \in SKUS :
              InSeq(s, lr.returned) <=>
                  /\ s \in DictKeys(LastCatalog)
                  /\ \E j \in DOMAIN CardNames :
                         product_enabled[j] /\ CardMatches(CardNames[j], LastName(s))
        /\ \A i, k \in DOMAIN lr.returned :
              lr.returned[i] = lr.returned[k] => i = k
        /\ \A c \in DOMAIN selected_cards :
              \E k \in DOMAIN lr.returned :
                  CardMatches(selected_cards[c], LastName(lr.returned[k]))

\* one enabled product, two SKUs served for it
C11_Witness ==
    /\ AllFound
    /\ lr.n_selected = 1
    /\ Len(lr.returned) = 2
    /\ cached_skus = lr.returned

\* sku1 was served before the last refresh, the catalog it fetched does not
\* list sku1 and lists sku2 under the name recorded for sku1
Reassigned(sku1, sku2) ==
    /\ Fetched
    /\ InSeq(sku1, lr.before)
    /\ sku1 \in DOMAIN lr.map_before
    /\ sku1 \notin DictKeys(LastCatalog)
    /\ sku2 \in DictKeys(LastCatalog)
    /\ LastName(sku2) = lr.map_before[sku1]

\* C12 as claimed (Spec): after a refresh that finds a served SKU gone and
\* its name under a new SKU, the new SKU is served, the old one is not, and
\* the process does not exit (it ends on a signal only).
C12_ReassignedSkuIsServed ==
    \A sku1, sku2 \in SKUS :
        Reassigned(sku1, sku2) =>
            /\ InSeq(sku2, cached_skus)
            /\ ~ InSeq(sku1, cached_skus)
            /\ pc # "mismatch"
            /\ pc = "done" => exit_code = 0

\* C12 as amended (Spec): the same, for a catalog in which no selected
\* product is missing.
C12_ReassignedSkuIsServedIfAllFound ==
    \A sku1, sku2 \in SKUS :
        (Reassigned(sku1, sku2) /\ AllFound) =>
            /\ InSeq(sku2, cached_skus)
            /\ ~ InSeq(sku1, cached_skus)
            /\ pc # "mismatch"
            /\ pc = "done" => exit_code = 0

\* the new SKU has been requested
C12_Witness ==
    /\ \E sku1, sku2 \in SKUS : Reassigned(sku1, sku2) /\ ev.sku = sku2
    /\ AllFound
    /\ Requests > lr.requests_at

(***************************************************************************)
(* What a refresh reports.  The reports of the code are those of           *)
(* RefreshEvents; "sku_changed" and "renamed" stand for the reports the    *)
(* claims name, which no line of get_skus_if_needed or                     *)
(* handle_product_mismatch prints or sends.                                *)
(***************************************************************************)
\* C13 as claimed (Spec): a refresh that finds a served SKU gone and its
\* name under a new SKU reports a changed SKU and no missing product.
C13_SkuChangedIsReported ==
    \A sku1, sku2 \in SKUS :
        Reassigned(sku1, sku2) =>
            /\ "sku_changed" \in lr.events
            /\ "missing" \notin lr.events

\* C13 as amended (Spec): such a refresh reports no changed SKU, and the
\* product whose SKU changed is not among the products it reports missing;
\* when no product is missing it reports the catalog and the update only.
C13_ReassignedIsNotMissing ==
    \A sku1, sku2 \in SKUS :
        Reassigned(sku1, sku2) =>
            /\ "sku_changed" \notin lr.events
            /\ \A k \in DOMAIN lr.missing :
                  ~ CardMatches(lr.missing[k], lr.map_before[sku1])
            /\ "missing" \in lr.events <=> lr.n_missing > 0
            /\ AllFound => lr.events = {"listed", "updated"}

C13_Witness ==
    /\ \E sku1, sku2 \in SKUS : Reassigned(sku1, sku2)
    /\ lr.events = {"listed", "updated"}
    /\ lr.returned # lr.before

\* sku was served before the last refresh, and the catalog it fetched lists
\* sku under another name than the one recorded for it
Renamed(sku) ==
    /\ Fetched
    /\ InSeq(sku, lr.before)
    /\ sku \in DOMAIN lr.map_before
    /\ sku \in DictKeys(LastCatalog)
    /\ LastName(sku) # lr.map_before[sku]

\* the name matches an enabled product
MatchesEnabled(name) ==
    \E j \in DOMAIN CardNames : product_enabled[j] /\ CardMatches(CardNames[j], name)

\* C14 as claimed (Spec): a refresh that finds a served SKU under another
\* name reports the rename, keeps the SKU in the served list, and the
\* process does not exit (it ends on a signal only).
C14_RenameKeepsSku ==
    \A sku \in SKUS :
        Renamed(sku) =>
            /\ "renamed" \in lr.events
            /\ InSeq(sku, cached_skus)
            /\ pc # "mismatch"
            /\ pc = "done" => exit_code = 0

\* C14 as amended (Spec): such a refresh reports no rename; when no
\* selected product is missing from the catalog, the SKU is served
\* afterwards exactly if its new name contains an enabled product's name;
\* when one is missing, the old list stays and the process is in the
\* warning rounds or has ended.
C14_RenameFollowsName ==
    \A sku \in SKUS :
        Renamed(sku) =>
            /\ "renamed" \notin lr.events
            /\ AllFound =>
                  /\ lr.kind = "ok"
                  /\ InSeq(sku, cached_skus) <=> MatchesEnabled(LastName(sku))
            /\ ~ AllFound =>
                  /\ lr.kind = "mismatch"
                  /\ cached_skus = lr.before
                  /\ pc \in {"mismatch", "done"}

\* a renamed SKU was dropped from the served list
C14_Witness ==
    \E sku \in SKUS :
        /\ Renamed(sku)
        /\ AllFound
        /\ ~ InSeq(sku, cached_skus)
        /\ cached_skus # <<>>

(***************************************************************************)
(* The cache and the catalog it came from.                                 *)
(***************************************************************************)
\* main() is in its polling loop
Polling == pc \in {"resolve", "poll", "cooldown", "spacing", "sleep"}

\* C15 (Spec): while the process polls, every served SKU is a key of the
\* SKU -> name map, and a cache that was filled is not emptied.
C15_ServedAreCatalogKeys ==
    Polling =>
        /\ \A k \in DOMAIN cached_skus : cached_skus[k] \in DOMAIN sku_to_name_map
        /\ lr.had_cache => cached_skus # <<>>

(***************************************************************************)
(* When a refresh is due.                                                  *)
(***************************************************************************)
\* the last call of get_skus_if_needed was not forced and found a time of
\* the last refresh
Timed == lr.kind # "none" /\ ~ lr.forced /\ lr.last_before # NoTime

\* the last call of get_skus_if_needed requested the catalog
Requested == lr.fetch.kind # "none"

\* C16 (SpecDue): a call that is not forced requests the catalog exactly if
\* the time elapsed since the last refresh is at least the interval.
C16_FetchIffElapsed ==
    Timed => (Requested <=> lr.elapsed >= SkuCheckInterval)

\* C17 (Spec): a call that is not forced and finds the interval not
\* elapsed requests no catalog, returns the cached list and leaves
\* cached_skus, the map and the time of the last refresh as they were; a
\* forced call requests the catalog.
C17_FreshCacheIsServed ==
    /\ (Timed /\ lr.elapsed < SkuCheckInterval) =>
           /\ ~ Requested
           /\ lr.kind = "skipped"
           /\ lr.returned = lr.before
           /\ cached_skus = lr.before
           /\ sku_to_name_map = lr.map_before
           /\ last_sku_check_time = lr.last_before
    /\ lr.forced => Requested

\* the cached list was served without a request and has been polled
C17_Witness ==
    /\ Timed
    /\ lr.elapsed < SkuCheckInterval
    /\ lr.had_cache
    /\ ~ Requested
    /\ Requests > lr.requests_at

(***************************************************************************)
(* One inventory request and its answer.                                   *)
(***************************************************************************)
\* the step is a request of skus[idx], and its answer is of this kind
Answered(kind) ==
    /\ pc = "poll"
    /\ Requests' # Requests
    /\ ev'.resp.kind = kind

BadCatalogShape == lr.fetch.kind \in {"badshape", "nokey"}

\* C19 (Spec): a catalog answer of an unexpected shape, received while a
\* cache exists, is a failure of that call only: the cache is kept and the
\* process goes on (it ends on a signal only).
C19_BadShapeIsAFailure ==
    (lr.had_cache /\ BadCatalogShape) =>
        /\ lr.kind = "fail"
        /\ ~ lr.raised
        /\ cached_skus = lr.before
        /\ pc # "mismatch"
        /\ pc = "done" => exit_code = 0

\* C20 (SpecPoll): an empty listMap is a successful request, leaves
\* last_stock_status and failed_requests as they were, dispatches nothing
\* and is followed by the spacing wait, not by a cooldown.
C20_EmptyAnswerIsNoTransition ==
    [][ Answered("empty") =>
            /\ last_stock_status' = last_stock_status
            /\ failed_requests' = failed_requests
            /\ successful_requests' = successful_requests + 1
            /\ ev'.alerts = 0
            /\ ev'.attempted = {}
            /\ cooldown_owed' = cooldown_owed
            /\ now' = now
            /\ pc' = "spacing"
      ]_vars

\* an empty answer for a SKU whose status is known
C20_Witness ==
    /\ ev.resp.kind = "empty"
    /\ pc = "spacing"
    /\ ev.sku \in DOMAIN last_stock_status
    /\ ~ cooldown_owed

(***************************************************************************)
(* The loop of main(), its end and the exit status.                        *)
(***************************************************************************)
\* C21 (SpecAlert): an exception that leaves check_nvidia_stock is followed
\* by the sleep of the loop and the sleep by a new cycle; the loop is left
\* only for the warning rounds of a product mismatch or on a signal.
C21_FailedCycleIsRetried ==
    [][ /\ (pc = "poll" /\ Requests' # Requests /\ ev'.escaped) =>
              /\ pc' = "sleep"
              /\ running'
        /\ (pc = "sleep" /\ pc' # "sleep") => pc' \in {"resolve", "done"}
        /\ (Polling /\ ~ Polling') =>
              \/ pc' = "mismatch"
              \/ pc' = "done" /\ exit_code' = 0 /\ ~ running'
      ]_vars

\* a new cycle after one that an exception ended
C21_Witness ==
    /\ ev.escaped
    /\ pc = "poll"
    /\ now >= CheckInterval

\* C22 (Spec): when the initial SKU check fails without a cache, and when
\* the warning rounds of a product mismatch are over, the process has ended
\* with a status that is not 0.
C22_ExhaustionExitsNonZero ==
    /\ (lr.forced /\ lr.raised) => (pc = "done" /\ exit_code # 0)
    /\ (lr.kind = "mismatch" /\ pc = "done" /\ remaining_attempts = 0) =>
           exit_code # 0

C27_StatusIffIntervalElapsed ==
    console_status.checked_at # NoTime =>
        /\ console_status.sent <=>
               console_status.elapsed >= ConsoleStatusInterval
        /\ console_status.sent =>
               console_status.last = console_status.checked_at

(***************************************************************************)
(* last_stock_status: when it is written and under which key.              *)
(***************************************************************************)

\* C29 (SpecPoll): the status of the observed SKU is written although the
\* dispatch of its alert fails part-way, and when the next request is for
\* the same SKU and gets the same answer no alert is dispatched again.
C29_NoSecondAlertAfterBrokenDispatch ==
    /\ (ev.alerts = 1 /\ (ev.escaped \/ ev.failed # {})) =>
           /\ ev.resp.fe_sku \in DOMAIN last_stock_status
           /\ last_stock_status[ev.resp.fe_sku] = ev.in_stock
    /\ (ev.repeat /\ ev.prev_broken) => ev.alerts = 0

\* C30 (SpecPoll): a request changes no entry of last_stock_status but the
\* one of the SKU that was requested.
C30_StatusKeyedByPolledSku ==
    [][ \A s \in DOMAIN last_stock_status' :
           s # ev'.sku =>
              /\ s \in DOMAIN last_stock_status
              /\ last_stock_status'[s] = last_stock_status[s]
      ]_vars

(***************************************************************************)
(* The handlers: the Telegram queue, the threads, failed sends.            *)
(***************************************************************************)

\* C24 (SpecTg): once shutdown() of the Telegram handler is complete, every
\* alert that was put on its queue has been sent or its loss has been
\* logged.
C24_NoAcceptedAlertLost ==
    tg.shutdown_complete => tg.accepted \subseteq (tg.sent \cup tg.logged)

\* C25 (SpecTg): no attribute is written by one of the two threads and read
\* or written by the other.
C25_OnlyTheQueueIsShared ==
    \A a \in tg.access : \A b \in tg.access :
        (a[1] = b[1] /\ a[2] # b[2]) => (a[3] = "r" /\ b[3] = "r")

\* C26 (SpecTg): a handler that is held by the manager and was not shut
\* down attempts every alert handed to it, whatever sends failed before.
C26_FailedChannelStaysOn ==
    /\ \A c \in Channels : ch[c].refused = {}
    /\ tg.sched = "active" => tg.refused = {}

\* C28 (SpecGather): while the delivery of a handler is not started, no
\* other handler's delivery keeps the event loop: nothing but the loop's
\* own scheduling stands between a handler and the start of its delivery.
C28_NoDeliveryWaitsForAnother ==
    ga # GaNone =>
        \A h \in Tasks : ga.state[h] = "pending" => ga.holder = 0

(***************************************************************************)
(* Waits, counters and the channels of the monolithic checker.             *)
(***************************************************************************)

\* C31 (SpecPoll): an inventory request is never followed by the next
\* request of the tick without a wait in between, whether it succeeded or
\* failed.
C31_SpacingBetweenRequests ==
    [][ (pc = "poll" /\ Requests' # Requests) => pc' # "poll" ]_vars

\* C32 as claimed (SpecPoll): the sleep after a cycle lasts what the cycle
\* left of check_interval, and nothing when the cycle took that long.
C32_SleepIsRemainder ==
    [][ (pc = "sleep" /\ pc' = "resolve") =>
            now' - now = (IF now - lr.at >= CheckInterval THEN 0
                          ELSE CheckInterval - (now - lr.at)) ]_vars

\* C32 as amended (SpecPoll): the sleep after a cycle lasts check_interval,
\* whatever time the cycle took.
C32_SleepIsCheckInterval ==
    [][ (pc = "sleep" /\ pc' = "resolve") => now' - now = CheckInterval ]_vars

\* a sleep is over that followed a cycle which took time
C32_Witness ==
    /\ pc = "resolve"
    /\ lr.at # NoTime
    /\ Requests > lr.requests_at
    /\ now - lr.at > CheckInterval

\* C33 (SpecDue): a refresh that fails while a cache exists raises nothing
\* and leaves last_sku_check_time as it was, and the next call of
\* get_skus_if_needed requests the catalog again.
C33_FailedRefreshIsRetried ==
    /\ []((lr.kind = "fail" /\ lr.had_cache) =>
             (~ lr.raised /\ last_sku_check_time = lr.last_before))
    /\ [][ (lr.kind = "fail" /\ lr.had_cache /\ lr' # lr) =>
               lr'.fetch.kind # "none" ]_vars

\* C34 (SpecTg): initialize() looks at most InitPolls times for the bot,
\* can go on whatever the bot thread does, and reports the handler ready
\* only when it read connected set.
C34_InitializeIsBounded ==
    /\ tg.polls <= InitPolls
    /\ tg.sched = "initializing" => ENABLED TgInitPoll
    /\ tg.sched = "init_check" => ENABLED TgInitDone
    /\ tg.sched = "active" => tg.init_saw

\* the wait ran out with the bot still starting, and initialize() returned
\* False
C34_Witness ==
    /\ tg.sched = "inactive"
    /\ tg.polls = InitPolls
    /\ tg.bot = "starting"

\* C36 (SpecTg): once shutdown_handlers has run, the stop event of a bot
\* thread that initialize() started is set.
C36_StartedBotIsStopped ==
    (tg.sched \in {"joining", "shutdown", "left_out"} /\ tg.bot # "none") =>
        tg.stop_event

\* C37 (SpecTg): the bot thread hands the accepted messages to
\* bot.send_message in the order in which they were accepted, none of them
\* twice and none that was not accepted.
C37_QueueKeepsOrder ==
    /\ \A i \in 1..Len(tg.out) : tg.out[i] \in tg.accepted
    /\ \A i \in 1..Len(tg.out) : \A j \in 1..Len(tg.out) :
           i < j => tg.out[i] < tg.out[j]

\* two messages were accepted and both have been sent
C37_Witness ==
    /\ Len(tg.out) = 2
    /\ tg.sent = {1, 2}

\* C35 (Spec): a catalog with every configured product starts no warning
\* round; a catalog that misses one starts MismatchAttempts rounds, each
\* round but the last is followed by the wait, no inventory request is
\* made meanwhile, and after the last round the process exits with status 1
\* (a signal may end it earlier).
C35_MismatchWarnsFiveTimes ==
    /\ []((Fetched /\ lr.n_missing = 0) => (lr.kind = "ok" /\ pc # "mismatch"))
    /\ []((Fetched /\ lr.n_missing > 0) =>
             (lr.kind = "mismatch" /\ pc \in {"mismatch", "done"}))
    /\ [][ /\ (pc # "mismatch" /\ pc' = "mismatch") =>
                 (remaining_attempts' = MismatchAttempts /\ lr'.n_missing > 0)
           /\ pc = "mismatch" =>
                 /\ Requests' = Requests
                 /\ \/ /\ remaining_attempts' = remaining_attempts - 1
                       /\ remaining_attempts' > 0
                       /\ pc' = "mismatch"
                       /\ now' = now + MismatchWait
                    \/ /\ remaining_attempts' = 0
                       /\ remaining_attempts = 1
                       /\ now' = now
                       /\ pc' = "done"
                       /\ exit_code' = 1
                    \/ /\ remaining_attempts' = remaining_attempts
                       /\ pc' = "done"
                       /\ exit_code' = 0
         ]_vars

\* the last of the warning rounds is over and the process has exited
C35_Witness ==
    /\ lr.kind = "mismatch"
    /\ pc = "done"
    /\ exit_code = 1
    /\ remaining_attempts = 0
    /\ now = lr.at + (MismatchAttempts - 1) * MismatchWait

\* C38 (SpecPoll): every inventory request adds one to exactly one of
\* successful_requests and failed_requests, the failed one exactly when the
\* request failed; nothing else changes the counters; last_check_success
\* tells whether the most recent request succeeded.
C38_EachRequestCountedOnce ==
    /\ [](ev.resp.kind # "none" => last_check_success = (ev.resp.kind # "fail"))
    /\ [][ IF pc = "poll" /\ pc' # "done"
           THEN /\ ev'.resp.kind # "none"
                /\ IF ev'.resp.kind = "fail"
                   THEN /\ failed_requests' = failed_requests + 1
                        /\ successful_requests' = successful_requests
                   ELSE /\ successful_requests' = successful_requests + 1
                        /\ failed_requests' = failed_requests
           ELSE /\ successful_requests' = successful_requests
                /\ failed_requests' = failed_requests
                /\ last_check_success' = last_check_success
         ]_vars

\* a failed request was followed by one that succeeded
C38_Witness ==
    /\ failed_requests = 1
    /\ successful_requests = 1
    /\ last_check_success
    /\ ev.resp.kind = "item"

\* C39 (SpecStop): running, once cleared, stays cleared, and from then on
\* no channel is attempted for a stock alert and no status update is
\* printed or sent.
C39_NothingSentAfterStop ==
    [][ ~ running =>
          /\ ~ running'
          /\ ev'.attempted = ev.attempted
          /\ ev'.alerts = ev.alerts
          /\ console_status' = console_status ]_vars

\* C40 (SpecAlert): an out-of-stock alert attempts neither the browser nor
\* the sound; an alert, in stock or out of stock, attempts Telegram (when
\* the bot is connected) and ntfy when they are enabled; the sound handler
\* of the handlers package plays nothing for an out-of-stock alert.
C40_OutOfStockAlertIsQuiet ==
    /\ \A enabled \in BOOLEAN : ~ SoundHandlerPlays(enabled, FALSE)
    /\ ev.alerts = 1 =>
          /\ ~ ev.in_stock =>
                /\ ev.attempted \cap {"browser", "sound"} = {}
                /\ ev.failed \cap {"browser", "sound"} = {}
          /\ (ev.enabled \cap {"telegram", "ntfy"}) \subseteq ev.attempted

====
